---- MODULE Spec2Model ----
(***************************************************************************)
(* A model of asyncgit's blocking repository operations (sync/stash.rs,    *)
(* sync/tags.rs, sync/status.rs) and of the asynchronous engine that runs  *)
(* them.                                                                   *)
(*                                                                         *)
(* The repository behind the stash operations holds one file, test.txt,    *)
(* as the tests of sync/stash.rs do.  A blob is a string; NoFile is the    *)
(* absence of the file.                                                    *)
(***************************************************************************)
EXTENDS Integers, Sequences, FiniteSets, TLC

VARIABLES
    head,           \* blob of test.txt in the HEAD commit
    index,          \* blob of test.txt in the index
    workdir,        \* blob of test.txt in the working tree
    stashes,        \* the stash reflog, newest first (stash@{0} is stashes[1])
    next_id,        \* the next stash commit's object id
    has_signature,  \* user.name / user.email are configured
    last,           \* the call whose result the caller holds, or Idle
    tag_refs,       \* refs/tags/: the object id each tag name points to
    files,          \* the state of each path against HEAD, index and working tree
    is_bare,        \* Repository::is_bare
    is_worktree,    \* Repository::is_worktree
    untracked_files, \* status.showUntrackedFiles of the repository's config
    generation,     \* scheduler: the live generation of each resource key
    desired,        \* scheduler: the latest desired parameters of each key
    jobs,           \* scheduler: the jobs that are Pending or Running
    lock,           \* who holds each location's execution lock
    cache,          \* versioned cache: value, generation and in-flight flag
    signals,        \* notification bus: wake signals the UI has not taken
    ui,             \* the repository operation the UI thread is inside
    arrived,        \* history: the submits of a key since its job was created
    run_mark,       \* history: how many of them came before the job ran
    finished        \* history: the terminal state of each key's last job

stashVars == <<head, index, workdir, stashes, next_id, has_signature>>
tagVars == <<tag_refs>>
statusVars == <<files, is_bare, is_worktree, untracked_files>>
schedVars == <<generation, desired, jobs, lock, cache, signals, ui, arrived, run_mark,
               finished>>
vars == <<head, index, workdir, stashes, next_id, has_signature, last, tag_refs,
          files, is_bare, is_worktree, untracked_files, generation, desired, jobs,
          lock, cache, signals, ui, arrived, run_mark, finished>>

\* what the operations of one part leave alone
allButStash == <<tagVars, statusVars, schedVars>>
allButTags == <<stashVars, statusVars, schedVars>>
allButStatus == <<stashVars, tagVars, schedVars>>
allButLast == <<stashVars, tagVars, statusVars, schedVars>>
allButSched == <<stashVars, tagVars, statusVars, last>>

----------------------------------------------------------------------------
(* Bounds *)

\* stash_save is called at most MaxSaves times with success
MaxSaves == 3

\* the UI calls submit at most MaxSubmits times
MaxSubmits == 3

\* the size of the worker pool
MaxWorkers == 2

----------------------------------------------------------------------------
(* sync/stash.rs *)

NoFile == "none"
\* the index entry of a file left in conflict by a merge
Unmerged == "unmerged"
\* the working-tree file a conflicting merge writes (conflict markers)
MergeFile == "merge-file"
Content == {"test", "test2", "test3"}

ErrNotFound == "Err: stash commit not found"
ErrConflict == "Err: checkout conflict"
ErrNothing == "Err: nothing to stash"
ErrSignature == "Err: no signature"
ErrUnmerged == "Err: unmerged index"

\* CommitId::new and CommitId::get_oid / Into<Oid>: a wrapper around the Oid
CommitId_new(oid) == [oid |-> oid]
get_oid(commit_id) == commit_id.oid


\* a call and what it returned: its name, the stash id and the flag passed
\* (where it takes them), Ok or the error, and the value inside Ok
Call(op, id, flag, res, ret) == [op |-> op, id |-> id, flag |-> flag, res |-> res, ret |-> ret]

\* no call is under way: the caller has taken the last result
Idle == Call("idle", CommitId_new(0), FALSE, "Ok", <<>>)

\* the commit ids a caller can pass
CommitIds == {CommitId_new(i) : i \in 1..MaxSaves}

\* Repository::stash_foreach with get_stashes' callback: every id is pushed,
\* the callback always answers true
RECURSIVE stash_foreach_push(_, _, _)
stash_foreach_push(list, i, acc) ==
    IF i >= Len(list) THEN acc
    ELSE stash_foreach_push(list, i + 1, Append(acc, CommitId_new(list[i + 1].oid)))

get_stashes_list(list) == stash_foreach_push(list, 0, <<>>)

\* Repository::stash_foreach with get_stash_index's callback: the 0-based
\* index of the first entry whose id is stash_id; the callback answers
\* false there, which ends the iteration
RECURSIVE stash_foreach_find(_, _, _)
stash_foreach_find(list, stash_id, i) ==
    IF i >= Len(list) THEN [found |-> FALSE, index |-> 0]
    ELSE IF list[i + 1].oid = stash_id THEN [found |-> TRUE, index |-> i]
    ELSE stash_foreach_find(list, stash_id, i + 1)

\* a slip: the index found is not the one handed back
get_stash_index_first(list, stash_id) ==
    [found |-> stash_foreach_find(list, stash_id, 0).found, index |-> 0]

get_stash_index(list, stash_id) == stash_foreach_find(list, stash_id, 0)

\* Repository::stash_drop(index): the reflog without its entry at index
git2_stash_drop(list, i) ==
    [k \in 1..(Len(list) - 1) |-> IF k <= i THEN list[k] ELSE list[k + 1]]

\* Repository::stash_apply(index, opts): the results libgit2 can produce for
\* stash entry s on a repository whose index entry is idx and whose working
\* tree file is wd.  A safe checkout writes the file when the working tree
\* still holds the baseline; it may accept a working tree that already holds
\* the target (the blobs' sizes decide, which a blob here does not carry);
\* anything else is a conflict, which allow_conflicts skips.  When the index
\* entry changed since the save and differs from the stash, the merge leaves
\* the entry unmerged and the file is written with conflict markers.
git2_stash_apply(s, idx, wd, allow_conflicts) ==
    LET theirs == IF s.untracked # NoFile THEN s.untracked ELSE s.tree
        keep(r) == [res |-> r, index |-> idx, workdir |-> wd]
        conflict == IF allow_conflicts THEN keep("Ok") ELSE keep(ErrConflict)
    IN  IF idx = theirs THEN {keep("Ok")}
        ELSE IF idx = s.base
        THEN IF wd = idx THEN {[res |-> "Ok", index |-> idx, workdir |-> theirs]}
             ELSE IF wd = theirs /\ s.untracked = NoFile THEN {keep("Ok"), conflict}
             ELSE {conflict}
        ELSE IF wd = idx
             THEN {[res |-> "Ok", index |-> Unmerged, workdir |-> MergeFile]}
             ELSE IF allow_conflicts
                  THEN {[res |-> "Ok", index |-> Unmerged, workdir |-> w] : w \in {wd, MergeFile}}
                  ELSE {keep(ErrConflict)}

\* The applications of a stash the model follows: the index holds no unmerged
\* entry, and a stash of the untracked file meets an index that either does
\* not know the file or holds the same blob.
Applicable(s, idx) ==
    /\ idx # Unmerged
    /\ s.untracked # NoFile => idx \in {NoFile, s.untracked}

\* tests::write_commit_file: write, stage and commit the file
write_commit_file(content) ==
    /\ last = Idle
    /\ head' = content
    /\ index' = content
    /\ workdir' = content
    /\ last' = Idle
    /\ UNCHANGED <<stashes, next_id, has_signature>>

\* utils::repo_write_file: write the working-tree file
repo_write_file(content) ==
    /\ last = Idle
    /\ workdir' = content
    /\ last' = Idle
    /\ UNCHANGED <<head, index, stashes, next_id, has_signature>>

get_stashes ==
    /\ last = Idle
    /\ last' = Call("get_stashes", CommitId_new(0), FALSE, "Ok", get_stashes_list(stashes))
    /\ UNCHANGED stashVars

stash_save_fails(res) ==
    /\ last' = Call("stash_save", CommitId_new(0), FALSE, res, <<>>)
    /\ UNCHANGED stashVars

\* a slip: the stash is written before the signature is looked up
stash_save_early(include_untracked, keep_index) ==
    /\ last = Idle
    /\ next_id <= MaxSaves
    /\ index # Unmerged
    /\ stashes' = <<[oid |-> next_id, base |-> head, tree |-> workdir,
                     untracked |-> NoFile]>> \o stashes
    /\ next_id' = next_id + 1
    /\ last' = Call("stash_save", CommitId_new(0), FALSE,
                    IF has_signature THEN "Ok" ELSE ErrSignature,
                    IF has_signature THEN <<CommitId_new(next_id)>> ELSE <<>>)
    /\ UNCHANGED <<head, index, workdir, has_signature>>

stash_save(include_untracked, keep_index) ==
    /\ last = Idle
    /\ next_id <= MaxSaves
    /\ IF ~has_signature THEN stash_save_fails(ErrSignature)
       ELSE IF index = Unmerged THEN stash_save_fails(ErrUnmerged)
       ELSE IF ~ \/ index # head
                 \/ index # NoFile /\ workdir # index
                 \/ index = NoFile /\ workdir # NoFile /\ include_untracked
            THEN stash_save_fails(ErrNothing)
       ELSE LET reset == IF keep_index THEN index ELSE head
                entry == [oid |-> next_id,
                          base |-> head,
                          tree |-> IF index # NoFile THEN workdir ELSE head,
                          untracked |-> IF index = NoFile THEN workdir ELSE NoFile]
            IN  /\ stashes' = <<entry>> \o stashes
                /\ next_id' = next_id + 1
                /\ index' = reset
                /\ workdir' = reset
                /\ last' = Call("stash_save", CommitId_new(0), FALSE, "Ok",
                                <<CommitId_new(next_id)>>)
                /\ UNCHANGED <<head, has_signature>>

stash_drop(stash_id) ==
    LET found == get_stash_index(stashes, get_oid(stash_id))
    IN  /\ last = Idle
        /\ IF ~found.found
           THEN /\ last' = Call("stash_drop", stash_id, FALSE, ErrNotFound, <<>>)
                /\ UNCHANGED stashes
           ELSE /\ stashes' = git2_stash_drop(stashes, found.index)
                /\ last' = Call("stash_drop", stash_id, FALSE, "Ok", <<>>)
        /\ UNCHANGED <<head, index, workdir, next_id, has_signature>>

\* a slip: the checkout of the popped stash is told to allow conflicts
stash_pop_allowing(stash_id) ==
    LET found == get_stash_index(stashes, get_oid(stash_id))
    IN  /\ last = Idle
        /\ found.found
        /\ Applicable(stashes[found.index + 1], index)
        /\ \E o \in git2_stash_apply(stashes[found.index + 1], index, workdir, TRUE) :
                /\ index' = o.index
                /\ workdir' = o.workdir
                /\ stashes' = git2_stash_drop(stashes, found.index)
                /\ last' = Call("stash_pop", stash_id, FALSE, o.res, <<>>)
        /\ UNCHANGED <<head, next_id, has_signature>>

\* Repository::stash_pop is stash_apply and, when that succeeded, stash_drop
stash_pop(stash_id) ==
    LET found == get_stash_index(stashes, get_oid(stash_id))
    IN  /\ last = Idle
        /\ IF ~found.found
           THEN /\ last' = Call("stash_pop", stash_id, FALSE, ErrNotFound, <<>>)
                /\ UNCHANGED <<index, workdir, stashes>>
           ELSE /\ Applicable(stashes[found.index + 1], index)
                /\ \E o \in git2_stash_apply(stashes[found.index + 1], index, workdir, FALSE) :
                        /\ index' = o.index
                        /\ workdir' = o.workdir
                        /\ stashes' = IF o.res = "Ok"
                                      THEN git2_stash_drop(stashes, found.index)
                                      ELSE stashes
                        /\ last' = Call("stash_pop", stash_id, FALSE, o.res, <<>>)
        /\ UNCHANGED <<head, next_id, has_signature>>

\* a slip: the checkout options are built but allow_conflicts is not set
stash_apply_strict(stash_id, allow_conflicts) ==
    LET found == get_stash_index(stashes, get_oid(stash_id))
    IN  /\ last = Idle
        /\ found.found
        /\ Applicable(stashes[found.index + 1], index)
        /\ \E o \in git2_stash_apply(stashes[found.index + 1], index, workdir, FALSE) :
                /\ index' = o.index
                /\ workdir' = o.workdir
                /\ last' = Call("stash_apply", stash_id, allow_conflicts, o.res, <<>>)
        /\ UNCHANGED <<head, stashes, next_id, has_signature>>

stash_apply(stash_id, allow_conflicts) ==
    LET found == get_stash_index(stashes, get_oid(stash_id))
    IN  /\ last = Idle
        /\ IF ~found.found
           THEN /\ last' = Call("stash_apply", stash_id, allow_conflicts, ErrNotFound, <<>>)
                /\ UNCHANGED <<index, workdir>>
           ELSE /\ Applicable(stashes[found.index + 1], index)
                /\ \E o \in git2_stash_apply(stashes[found.index + 1], index, workdir,
                                             allow_conflicts) :
                        /\ index' = o.index
                        /\ workdir' = o.workdir
                        /\ last' = Call("stash_apply", stash_id, allow_conflicts, o.res, <<>>)
        /\ UNCHANGED <<head, stashes, next_id, has_signature>>

\* the caller takes the result of its call and goes on
take_result ==
    /\ last # Idle
    /\ last' = Idle

\* tests::repo_init: an initial commit without the file
StashRepoInit ==
    /\ head = NoFile
    /\ index = NoFile
    /\ workdir = NoFile
    /\ stashes = <<>>
    /\ next_id = 1


----------------------------------------------------------------------------
(* Properties of sync/stash.rs: every step of an operation, from the       *)
(* repository before it (unprimed) to the repository and the returned      *)
(* value after it (primed)                                                 *)

\* the positions, in the list before the call, of the stash the call names
Positions == {k \in 1..Len(stashes) : stashes[k].oid = last'.id.oid}

\* the blob a stash entry restores
Stashed(s) == IF s.untracked # NoFile THEN s.untracked ELSE s.tree

Without(list, k) ==
    [j \in 1..(Len(list) - 1) |-> IF j < k THEN list[j] ELSE list[j + 1]]

\* C5: after a stash_save that returns Ok(id), get_stashes returns exactly one
\* more entry than before and the list contains id; a stash_save that returns
\* an error leaves the list as it was.
C5_SaveAddsOneEntry ==
    [][last'.op = "stash_save" =>
            LET before == get_stashes_list(stashes)
                after == get_stashes_list(stashes')
            IN  IF last'.res = "Ok"
                THEN /\ Len(after) = Len(before) + 1
                     /\ Len(last'.ret) = 1
                     /\ \E k \in 1..Len(after) : after[k] = last'.ret[1]
                ELSE after = before]_vars

\* a second stash has just been saved, and its id heads the list
C5_Witness ==
    /\ last.op = "stash_save"
    /\ last.res = "Ok"
    /\ Len(stashes) = 2
    /\ last.ret = <<CommitId_new(stashes[1].oid)>>

\* C8, as claimed: when the working-tree file was modified after the stash was
\* saved (it holds neither what the save left nor the stashed content),
\* stash_pop returns an error and the file is as before; when it was not
\* modified, stash_pop returns Ok and the file holds the stashed content.
C8_PopAsClaimed ==
    [][last'.op = "stash_pop" =>
            \A k \in Positions :
                LET s == stashes[k]
                IN  /\ workdir \notin {s.base, Stashed(s)} =>
                            last'.res # "Ok" /\ workdir' = workdir
                    /\ workdir = s.base =>
                            last'.res = "Ok" /\ workdir' = Stashed(s)
                    /\ workdir = Stashed(s) => workdir' = Stashed(s)]_vars

\* C8, amended: for a stash whose base blob is still the file's index entry,
\* stash_pop returns an error and leaves file and stash list as they were when
\* the working-tree file differs from both the base and the stashed content;
\* it returns Ok, writes the stashed content and removes the stash when the
\* file is unmodified; a file that already holds the stashed content keeps it.
C8_PopOnUnchangedIndex ==
    [][last'.op = "stash_pop" =>
            \A k \in Positions :
                LET s == stashes[k]
                IN  index = s.base =>
                        /\ workdir \notin {s.base, Stashed(s)} =>
                                /\ last'.res = ErrConflict
                                /\ workdir' = workdir
                                /\ stashes' = stashes
                        /\ workdir = s.base =>
                                /\ last'.res = "Ok"
                                /\ workdir' = Stashed(s)
                                /\ stashes' = Without(stashes, k)
                        /\ workdir = Stashed(s) => workdir' = Stashed(s)]_vars

\* a stash_pop has just failed on a modified file of an unchanged index, and
\* left the file alone
C8_Witness ==
    /\ last.op = "stash_pop"
    /\ last.res = ErrConflict
    /\ \E k \in 1..Len(stashes) :
            /\ stashes[k].oid = last.id.oid
            /\ index = stashes[k].base
            /\ stashes[k].untracked = NoFile
            /\ workdir \in Content \ {stashes[k].base, stashes[k].tree}

C10_DropExactlyThatEntry ==
    [][/\ last'.op = "stash_drop" =>
                \A k \in Positions :
                    /\ last'.res = "Ok"
                    /\ stashes' = Without(stashes, k)
                    /\ workdir' = workdir
       /\ last'.op \in {"stash_drop", "stash_pop", "stash_apply"} /\ Positions = {}
            => /\ last'.res = ErrNotFound
               /\ stashes' = stashes
               /\ workdir' = workdir
               /\ index' = index]_vars

\* three stashes were saved and the middle one has just been dropped
C10_Witness ==
    /\ last.op = "stash_drop"
    /\ last.res = "Ok"
    /\ last.id = CommitId_new(2)
    /\ Len(stashes) = 2
    /\ stashes[1].oid = 3
    /\ stashes[2].oid = 1

----------------------------------------------------------------------------
(* sync/tags.rs *)

\* Option and Result values
Some(v) == [some |-> TRUE, v |-> v]
None == [some |-> FALSE]
Ok(v) == [ok |-> TRUE, v |-> v]
Err == [ok |-> FALSE]

\* "refs/tags/", the bytes every name handed to the callback starts with
RefsTags == <<114, 101, 102, 115, 47, 116, 97, 103, 115, 47>>

\* tag names, as the bytes of the reference's name: "a", "b", the lone
\* continuation byte 0x80 (which another git client can write and which is no
\* UTF-8) and the two bytes of U+00E9
TagNames == {<<97>>, <<98>>, <<128>>, <<195, 169>>}

\* the objects of the repository, named by their ids: two commits, a tree, and
\* the annotated tag objects (an id stands for the content it hashes)
CommitOids == {[type |-> "commit", n |-> "c1"], [type |-> "commit", n |-> "c2"]}
TreeOids == {[type |-> "tree", n |-> "t1"]}
\* tag messages: none, and "m"
Messages == {<<>>, <<109>>}
TagOids ==
    [type : {"tag"}, name : TagNames, target : CommitOids \cup TreeOids, message : Messages]
NoRef == [type |-> "none"]

\* String::from_utf8 and bytes2string: the bytes are kept when they are
\* well-formed UTF-8, an error otherwise
RECURSIVE is_utf8(_, _)
is_utf8(bytes, i) ==
    IF i > Len(bytes) THEN TRUE
    ELSE LET b == bytes[i]
             cont(k) == k <= Len(bytes) /\ bytes[k] >= 128 /\ bytes[k] <= 191
         IN  IF b < 128 THEN is_utf8(bytes, i + 1)
             ELSE IF b >= 194 /\ b <= 223
             THEN cont(i + 1) /\ is_utf8(bytes, i + 2)
             ELSE IF b >= 224 /\ b <= 239
             THEN /\ cont(i + 1) /\ cont(i + 2)
                  /\ b = 224 => bytes[i + 1] >= 160
                  /\ b = 237 => bytes[i + 1] <= 159
                  /\ is_utf8(bytes, i + 3)
             ELSE IF b >= 240 /\ b <= 244
             THEN /\ cont(i + 1) /\ cont(i + 2) /\ cont(i + 3)
                  /\ b = 240 => bytes[i + 1] >= 144
                  /\ b = 244 => bytes[i + 1] <= 143
                  /\ is_utf8(bytes, i + 4)
             ELSE FALSE

String_from_utf8(bytes) == IF is_utf8(bytes, 1) THEN Ok(bytes) ELSE Err

\* Repository::find_tag and Repository::find_commit: the object of that id,
\* when it is of that type
find_tag(id) == IF id.type = "tag" THEN Ok(id) ELSE Err
find_commit(id) == IF id.type = "commit" THEN Ok(id) ELSE Err

\* Object::peel_to_commit
RECURSIVE peel_to_commit(_)
peel_to_commit(object) ==
    IF object.type = "commit" THEN Ok(object)
    ELSE IF object.type = "tag" THEN peel_to_commit(object.target)
    ELSE Err

\* the commit of a tag: the peeled target of an annotated tag, or the id
\* itself when it is a commit's
tag_commit(id) ==
    LET tag == find_tag(id)
        commit == IF tag.ok THEN peel_to_commit(tag.v.target) ELSE Err
    IN  IF commit.ok THEN Some([oid |-> commit.v])
        ELSE IF find_commit(id).ok THEN Some([oid |-> id])
        ELSE None

\* the annotation of a tag: the message of an annotated tag when it is not
\* empty and is UTF-8
tag_annotation(id) ==
    LET tag == find_tag(id)
    IN  IF tag.ok /\ tag.v.message # <<>> /\ String_from_utf8(tag.v.message).ok
        THEN Some(tag.v.message)
        ELSE None

\* get_tags' closure adder
adder(res, key, value) ==
    IF key \in DOMAIN res
    THEN [res EXCEPT ![key] = Append(@, value)]
    ELSE res @@ (key :> <<value>>)

\* byte-wise order of reference names
RECURSIVE bytes_less(_, _, _)
bytes_less(a, b, i) ==
    IF i > Len(b) THEN FALSE
    ELSE IF i > Len(a) THEN TRUE
    ELSE IF a[i] # b[i] THEN a[i] < b[i]
    ELSE bytes_less(a, b, i + 1)

\* the tag references in the order git_tag_foreach visits them
RECURSIVE sorted_refs(_, _)
sorted_refs(refs, names) ==
    IF names = {} THEN <<>>
    ELSE LET first == CHOOSE n \in names : \A m \in names \ {n} : bytes_less(n, m, 1)
         IN  <<[name |-> RefsTags \o first, id |-> refs[first]]>>
                \o sorted_refs(refs, names \ {first})

\* Repository::tag_foreach with get_tags' callback: the callback answers
\* false on a name that is no UTF-8, which ends the iteration
RECURSIVE tag_foreach(_, _, _)
tag_foreach(list, i, res) ==
    IF i > Len(list) THEN res
    ELSE LET name == String_from_utf8(SubSeq(list[i].name, 11, Len(list[i].name)))
             id == list[i].id
             commit == tag_commit(id)
             annotation == tag_annotation(id)
         IN  IF name.ok
             THEN tag_foreach(list, i + 1,
                    IF commit.some
                    THEN adder(res, commit.v, [name |-> name.v, annotation |-> annotation])
                    ELSE res)
             ELSE res

get_tags_map(refs) ==
    tag_foreach(sorted_refs(refs, {n \in TagNames : refs[n] # NoRef}), 1, <<>>)

get_tags ==
    /\ last = Idle
    /\ last' = Call("get_tags", [oid |-> 0], FALSE, "Ok", get_tags_map(tag_refs))
    /\ UNCHANGED tagVars

\* delete_tag takes a &str: the names a caller can pass are UTF-8
delete_tag(tag_name) ==
    /\ last = Idle
    /\ String_from_utf8(tag_name).ok
    /\ IF tag_refs[tag_name] = NoRef
       THEN /\ last' = Call("delete_tag", tag_name, FALSE, "Err: tag not found", <<>>)
            /\ UNCHANGED tag_refs
       ELSE /\ tag_refs' = [tag_refs EXCEPT ![tag_name] = NoRef]
            /\ last' = Call("delete_tag", tag_name, FALSE, "Ok", <<>>)

\* tests::repo_init: a repository without tags
TagsRepoInit == tag_refs = [n \in TagNames |-> NoRef]

\* Repository::tag with force = false, as the tests call it, and the tags
\* other clients write: a lightweight tag holds the id of a commit or a tree,
\* an annotated tag the id of its tag object
repo_tag(name, id) ==
    /\ last = Idle
    /\ tag_refs[name] = NoRef
    /\ id.type = "tag" => id.name = name
    /\ tag_refs' = [tag_refs EXCEPT ![name] = id]
    /\ last' = Idle


----------------------------------------------------------------------------
(* Properties of sync/tags.rs *)

\* the tags of the repository that have a UTF-8 name and point to this commit
\* (directly, or through their tag object)
TagsOn(commit) ==
    {n \in TagNames : /\ tag_refs[n] # NoRef
                      /\ is_utf8(n, 1)
                      /\ \/ tag_refs[n] = commit
                         \/ tag_refs[n].type = "tag" /\ tag_refs[n].target = commit}

\* C6: get_tags returns all tags found in the repository grouped by target
\* commit: every tag (here: every tag with a UTF-8 name that points to a
\* commit) appears exactly once under the key of its commit, every key is a
\* commit with such a tag, and no key maps to an empty list.
C6_AllTagsGrouped ==
    last.op = "get_tags" =>
        /\ last.res = "Ok"
        /\ DOMAIN last.ret = {[oid |-> c] : c \in {d \in CommitOids : TagsOn(d) # {}}}
        /\ \A c \in CommitOids :
                TagsOn(c) # {} =>
                    LET list == last.ret[[oid |-> c]]
                    IN  /\ Len(list) = Cardinality(TagsOn(c))
                        /\ {list[i].name : i \in 1..Len(list)} = TagsOn(c)

----------------------------------------------------------------------------
(* sync/status.rs *)

\* paths, as bytes: "a-b", "a/b", "b" and a name that is no UTF-8
Paths == {<<97, 45, 98>>, <<97, 47, 98>>, <<98>>, <<128>>}

\* what a path is to HEAD, the index and the working tree: unchanged, or
\* changed in one of the ways git_status_list_new reports
FileStates ==
    {"CURRENT", "WT_NEW", "WT_MODIFIED", "INDEX_NEW", "INDEX_MODIFIED", "INDEX_RENAMED"}

\* a file renamed in the index went to the directory "z/"
renamed_to(path) == <<122, 47>> \o path

\* ShowUntrackedFilesConfig, its include_untracked and recurse_untracked_dirs
ShowUntrackedFilesConfig == {"No", "Normal", "All"}
Config_include_untracked(config) == config # "No"
Config_recurse_untracked_dirs(config) == config = "All"

\* StatusType and its conversion to git2::StatusShow
StatusType == {"WorkingDir", "Stage", "Both"}
StatusShow_from(s) ==
    IF s = "WorkingDir" THEN "Workdir"
    ELSE IF s = "Stage" THEN "Index"
    ELSE "IndexAndWorkdir"

\* impl From<Status> for StatusItemType
StatusItemType_from(s) ==
    IF "INDEX_NEW" \in s \/ "WT_NEW" \in s THEN "New"
    ELSE IF "INDEX_DELETED" \in s \/ "WT_DELETED" \in s THEN "Deleted"
    ELSE IF "INDEX_RENAMED" \in s \/ "WT_RENAMED" \in s THEN "Renamed"
    ELSE IF "INDEX_TYPECHANGE" \in s \/ "WT_TYPECHANGE" \in s THEN "Typechange"
    ELSE IF "CONFLICTED" \in s THEN "Conflicted"
    ELSE "Modified"

\* the directory a path lies in ("a/" for "a/b"), or <<>> at the top level
RECURSIVE top_directory(_, _)
top_directory(path, i) ==
    IF i > Len(path) THEN <<>>
    ELSE IF path[i] = 47 THEN SubSeq(path, 1, i)
    ELSE top_directory(path, i + 1)

\* the entry git_status_list_new makes for a path, when it makes one: the
\* path it is listed under, its status flags and its head-to-index delta.
\* Untracked files of a directory that holds nothing else are listed as the
\* directory unless untracked directories are recursed into.
status_entry(fs, path, show, config) ==
    LET state == fs[path]
        dir == top_directory(path, 1)
        alone == \A q \in Paths : top_directory(q, 1) = dir => fs[q] = "WT_NEW"
        in_index == state \in {"INDEX_NEW", "INDEX_MODIFIED", "INDEX_RENAMED"}
    IN  IF state = "CURRENT" THEN None
        ELSE IF in_index
        THEN IF show = "Workdir" THEN None
             ELSE Some([path |-> path, status |-> {state},
                        head_to_index |-> Some(IF state = "INDEX_RENAMED"
                                               THEN renamed_to(path) ELSE path)])
        ELSE IF show = "Index" THEN None
        ELSE IF state = "WT_NEW" /\ ~Config_include_untracked(config) THEN None
        ELSE Some([path |-> IF state = "WT_NEW" /\ dir # <<>> /\ alone
                               /\ ~Config_recurse_untracked_dirs(config)
                            THEN dir ELSE path,
                   status |-> {state},
                   head_to_index |-> None])

\* Repository::statuses: the entries, ordered by the bytes of their paths
RECURSIVE statuses_list(_, _, _, _)
statuses_list(fs, paths, show, config) ==
    IF paths = {} THEN <<>>
    ELSE LET first == CHOOSE p \in paths : \A q \in paths \ {p} : bytes_less(p, q, 1)
             e == status_entry(fs, first, show, config)
         IN  (IF e.some THEN <<e.v>> ELSE <<>>)
                \o statuses_list(fs, paths \ {first}, show, config)

\* Path::to_str and StatusEntry::path: the text of a path that is UTF-8
Path_to_str(path) == IF is_utf8(path, 1) THEN Some(path) ELSE None

\* Path::components: the parts between separators, empty parts dropped
RECURSIVE components(_, _, _, _)
components(path, i, part, acc) ==
    IF i > Len(path)
    THEN IF part = <<>> THEN acc ELSE Append(acc, part)
    ELSE IF path[i] = 47
    THEN components(path, i + 1, <<>>, IF part = <<>> THEN acc ELSE Append(acc, part))
    ELSE components(path, i + 1, Append(part, path[i]), acc)

\* Path::cmp: the components compared one by one, each by its bytes
RECURSIVE components_cmp(_, _, _)
components_cmp(a, b, i) ==
    IF i > Len(a) /\ i > Len(b) THEN "Equal"
    ELSE IF i > Len(a) THEN "Less"
    ELSE IF i > Len(b) THEN "Greater"
    ELSE IF bytes_less(a[i], b[i], 1) THEN "Less"
    ELSE IF bytes_less(b[i], a[i], 1) THEN "Greater"
    ELSE components_cmp(a, b, i + 1)

Path_cmp(a, b) ==
    components_cmp(components(a, 1, <<>>, <<>>), components(b, 1, <<>>, <<>>), 1)

\* one insertion of the stable sort: item goes after the last element that
\* is not greater
RECURSIVE sort_insert(_, _, _)
sort_insert(sorted, item, i) ==
    IF i = 0 \/ Path_cmp(sorted[i].path, item.path) # "Greater"
    THEN SubSeq(sorted, 1, i) \o <<item>> \o SubSeq(sorted, i + 1, Len(sorted))
    ELSE sort_insert(sorted, item, i - 1)

RECURSIVE sort_from(_, _, _)
sort_from(list, i, sorted) ==
    IF i > Len(list) THEN sorted
    ELSE sort_from(list, i + 1, sort_insert(sorted, list[i], Len(sorted)))

\* a slip: the result is handed back as the entries were listed
sort_by_skipped(list) == list

\* res.sort_by(|a, b| Path::new(a.path).cmp(Path::new(b.path)))
sort_by(list) == sort_from(list, 1, <<>>)

\* the loop over the entries: the path of the head-to-index delta's new file
\* when there is one, the entry's path otherwise; a path that is no UTF-8
\* ends the call with an error
RECURSIVE status_items(_, _, _)
status_items(list, i, res) ==
    IF i > Len(list) THEN Ok(res)
    ELSE LET e == list[i]
             path == IF e.head_to_index.some
                     THEN Path_to_str(e.head_to_index.v)
                     ELSE Path_to_str(e.path)
         IN  IF ~path.some THEN Err
             ELSE status_items(list, i + 1,
                    Append(res, [path |-> path.v, status |-> StatusItemType_from(e.status)]))

get_status(status_type, show_untracked) ==
    /\ last = Idle
    /\ IF is_bare /\ ~is_worktree
       THEN last' = Call("get_status", [oid |-> 0], FALSE, "Ok", <<>>)
       ELSE LET config == IF show_untracked.some THEN show_untracked.v
                          ELSE untracked_files
                list == statuses_list(files, Paths, StatusShow_from(status_type), config)
                res == status_items(list, 1, <<>>)
            IN  last' = IF res.ok
                        THEN Call("get_status", [oid |-> 0], FALSE, "Ok", sort_by(res.v))
                        ELSE Call("get_status", [oid |-> 0], FALSE, "Err: Generic", <<>>)
    /\ UNCHANGED statusVars

\* a clean repository
StatusRepoInit ==
    /\ files = [p \in Paths |-> "CURRENT"]
    /\ is_bare = FALSE
    /\ is_worktree = FALSE
    /\ untracked_files = "All"

----------------------------------------------------------------------------
(* The asynchronous engine: scheduler, versioned cache, notification bus *)

Locations == {"l1", "l2"}
\* ResourceKey: a location and a kind; the parameters travel with the submit
Keys ==
    {[loc |-> "l1", kind |-> "Status"], [loc |-> "l1", kind |-> "Stashes"],
     [loc |-> "l2", kind |-> "Status"]}
Parameters == {"p1", "p2"}
NoParameters == "none"
Free == [loc |-> "none", kind |-> "free"]
UiIdle == [op |-> "idle", loc |-> "none"]

\* Job: key, parameters, the generation stamped at submit time, its state
\* (Pending or Running; the terminal states end it) and whether its worker is
\* inside the repository operation
Job(key, params, gen) ==
    [key |-> key, params |-> params, gen |-> gen, state |-> "Pending", in_call |-> FALSE]

InFlight(key) == {j \in jobs : j.key = key}

\* the submits made so far: every submit bumps one generation
RECURSIVE submits(_)
submits(keys) ==
    IF keys = {} THEN 0
    ELSE LET k == CHOOSE x \in keys : TRUE
         IN  generation[k] + submits(keys \ {k})

\* a slip: a job is started for every submit
submit_always_starts(key, params) ==
    /\ ui = UiIdle
    /\ submits(Keys) < MaxSubmits
    /\ generation' = [generation EXCEPT ![key] = @ + 1]
    /\ desired' = [desired EXCEPT ![key] = params]
    /\ cache' = [cache EXCEPT ![key].in_flight = TRUE]
    /\ jobs' = jobs \cup {Job(key, params, generation[key] + 1)}
    /\ arrived' = [arrived EXCEPT ![key] = IF InFlight(key) = {} THEN <<>>
                                           ELSE Append(@, params)]
    /\ run_mark' = IF InFlight(key) = {} THEN [run_mark EXCEPT ![key] = 0] ELSE run_mark
    /\ UNCHANGED <<lock, signals, ui, finished>>

\* Scheduler.submit: the generation is bumped and the parameters recorded; a
\* job is created when none is in flight for the key
submit(key, params) ==
    /\ ui = UiIdle
    /\ submits(Keys) < MaxSubmits
    /\ generation' = [generation EXCEPT ![key] = @ + 1]
    /\ desired' = [desired EXCEPT ![key] = params]
    /\ cache' = [cache EXCEPT ![key].in_flight = TRUE]
    /\ IF InFlight(key) = {}
       THEN /\ jobs' = jobs \cup {Job(key, params, generation[key] + 1)}
            /\ arrived' = [arrived EXCEPT ![key] = <<>>]
            /\ run_mark' = [run_mark EXCEPT ![key] = 0]
       ELSE /\ arrived' = [arrived EXCEPT ![key] = Append(@, params)]
            /\ UNCHANGED <<jobs, run_mark>>
    /\ UNCHANGED <<lock, signals, ui, finished>>

\* a worker of the pool takes a Pending job
run(j) ==
    /\ j \in jobs
    /\ j.state = "Pending"
    /\ Cardinality({r \in jobs : r.state = "Running"}) < MaxWorkers
    /\ jobs' = (jobs \ {j}) \cup {[j EXCEPT !.state = "Running"]}
    /\ run_mark' = [run_mark EXCEPT ![j.key] = Len(arrived[j.key])]
    /\ UNCHANGED <<generation, desired, lock, cache, signals, ui, arrived, finished>>

\* the worker acquires the location's execution lock and enters the call
call(j) ==
    /\ j \in jobs
    /\ j.state = "Running"
    /\ ~j.in_call
    /\ lock[j.key.loc] = Free
    /\ lock' = [lock EXCEPT ![j.key.loc] = j.key]
    /\ jobs' = (jobs \ {j}) \cup {[j EXCEPT !.in_call = TRUE]}
    /\ UNCHANGED <<generation, desired, cache, signals, ui, arrived, run_mark, finished>>

\* a slip: the result is written whatever the generation
complete_unchecked(j, outcome) ==
    /\ j \in jobs
    /\ j.in_call
    /\ lock' = [lock EXCEPT ![j.key.loc] = Free]
    /\ cache' = [cache EXCEPT ![j.key] =
                    [value |-> <<j.params, outcome>>, gen |-> j.gen, in_flight |-> FALSE]]
    /\ signals' = signals + 1
    /\ jobs' = jobs \ {j}
    /\ finished' = [finished EXCEPT ![j.key] = [gen |-> j.gen, state |-> outcome]]
    /\ UNCHANGED <<generation, desired, ui, arrived, run_mark>>

\* a slip: the trailing run repeats the parameters of the run that ended
complete_repeating(j, outcome) ==
    /\ j \in jobs
    /\ j.in_call
    /\ lock' = [lock EXCEPT ![j.key.loc] = Free]
    /\ IF j.gen = generation[j.key]
       THEN /\ cache' = [cache EXCEPT ![j.key] =
                            [value |-> <<j.params, outcome>>, gen |-> j.gen,
                             in_flight |-> FALSE]]
            /\ signals' = signals + 1
            /\ jobs' = jobs \ {j}
            /\ finished' = [finished EXCEPT ![j.key] = [gen |-> j.gen, state |-> outcome]]
            /\ UNCHANGED arrived
       ELSE /\ jobs' = (jobs \ {j}) \cup {Job(j.key, j.params, generation[j.key])}
            /\ arrived' = [arrived EXCEPT ![j.key] = <<>>]
            /\ finished' = [finished EXCEPT ![j.key] = [gen |-> j.gen, state |-> "Discarded"]]
            /\ UNCHANGED <<cache, signals>>
    /\ UNCHANGED <<generation, desired, ui, run_mark>>

\* the call returns and the job completes: the lock is released; a job whose
\* generation is still the live one is Done or Failed, its result is written
\* and a wake signal sent; a stale job is Discarded and one run is started
\* with the latest desired parameters
complete(j, outcome) ==
    /\ j \in jobs
    /\ j.in_call
    /\ lock' = [lock EXCEPT ![j.key.loc] = Free]
    /\ IF j.gen = generation[j.key]
       THEN /\ cache' = [cache EXCEPT ![j.key] =
                            [value |-> <<j.params, outcome>>, gen |-> j.gen,
                             in_flight |-> FALSE]]
            /\ signals' = signals + 1
            /\ jobs' = jobs \ {j}
            /\ finished' = [finished EXCEPT ![j.key] = [gen |-> j.gen, state |-> outcome]]
            /\ UNCHANGED arrived
       ELSE /\ jobs' = (jobs \ {j}) \cup {Job(j.key, desired[j.key], generation[j.key])}
            /\ arrived' = [arrived EXCEPT ![j.key] = <<>>]
            /\ finished' = [finished EXCEPT ![j.key] = [gen |-> j.gen, state |-> "Discarded"]]
            /\ UNCHANGED <<cache, signals>>
    /\ UNCHANGED <<generation, desired, ui, run_mark>>

\* the UI takes the wake signals; it reads the cache afterwards
receive ==
    /\ signals > 0
    /\ signals' = 0
    /\ UNCHANGED <<generation, desired, jobs, lock, cache, ui, arrived, run_mark, finished>>

\* the UI issues stash_drop itself: get_stash_index is called on the
\* repository the call opened,
ui_get_stash_index(loc) ==
    /\ ui = UiIdle
    /\ ui' = [op |-> "stash_drop", loc |-> loc]
    /\ UNCHANGED <<generation, desired, jobs, lock, cache, signals, arrived, run_mark,
                   finished>>

\* and Repository::stash_drop on the index found
ui_stash_drop ==
    /\ ui.op = "stash_drop"
    /\ ui' = UiIdle
    /\ UNCHANGED <<generation, desired, jobs, lock, cache, signals, arrived, run_mark,
                   finished>>

\* an engine that was just created
SchedInit ==
    /\ generation = [k \in Keys |-> 0]
    /\ desired = [k \in Keys |-> NoParameters]
    /\ jobs = {}
    /\ lock = [l \in Locations |-> Free]
    /\ cache = [k \in Keys |-> [value |-> <<>>, gen |-> 0, in_flight |-> FALSE]]
    /\ signals = 0
    /\ ui = UiIdle
    /\ arrived = [k \in Keys |-> <<>>]
    /\ run_mark = [k \in Keys |-> 0]
    /\ finished = [k \in Keys |-> [gen |-> 0, state |-> "none"]]

----------------------------------------------------------------------------
(* Specifications *)

InitStash ==
    /\ StashRepoInit
    /\ has_signature \in BOOLEAN
    /\ last = Idle
    /\ TagsRepoInit
    /\ StatusRepoInit
    /\ SchedInit

NextStash ==
    \/ \E content \in Content : write_commit_file(content) /\ UNCHANGED allButStash
    \/ \E content \in Content : repo_write_file(content) /\ UNCHANGED allButStash
    \/ get_stashes /\ UNCHANGED allButStash
    \/ \E include_untracked \in BOOLEAN, keep_index \in BOOLEAN :
            stash_save(include_untracked, keep_index) /\ UNCHANGED allButStash
    \/ \E stash_id \in CommitIds : stash_drop(stash_id) /\ UNCHANGED allButStash
    \/ \E stash_id \in CommitIds : stash_pop(stash_id) /\ UNCHANGED allButStash
    \/ \E stash_id \in CommitIds, allow_conflicts \in BOOLEAN :
            stash_apply(stash_id, allow_conflicts) /\ UNCHANGED allButStash
    \/ take_result /\ UNCHANGED allButLast

SpecStash == InitStash /\ [][NextStash]_vars

InitTags ==
    /\ TagsRepoInit
    /\ last = Idle
    /\ StashRepoInit
    /\ has_signature = TRUE
    /\ StatusRepoInit
    /\ SchedInit

NextTags ==
    \/ get_tags /\ UNCHANGED allButTags
    \/ \E tag_name \in TagNames : delete_tag(tag_name) /\ UNCHANGED allButTags
    \/ \E name \in TagNames, id \in CommitOids \cup TreeOids \cup TagOids :
            repo_tag(name, id) /\ UNCHANGED allButTags
    \/ take_result /\ UNCHANGED allButLast

SpecTags == InitTags /\ [][NextTags]_vars

\* get_status is applied to every repository: any state of the paths, bare
\* or not, a linked worktree or not, any configuration
InitStatus ==
    /\ files \in [Paths -> FileStates]
    /\ is_bare \in BOOLEAN
    /\ is_worktree \in BOOLEAN
    /\ untracked_files \in ShowUntrackedFilesConfig
    /\ last = Idle
    /\ StashRepoInit
    /\ has_signature = TRUE
    /\ TagsRepoInit
    /\ SchedInit

NextStatus ==
    \/ \E status_type \in StatusType,
          show_untracked \in {None} \cup {Some(c) : c \in ShowUntrackedFilesConfig} :
            get_status(status_type, show_untracked) /\ UNCHANGED allButStatus
    \/ take_result /\ UNCHANGED allButLast

SpecStatus == InitStatus /\ [][NextStatus]_vars

InitSched ==
    /\ SchedInit
    /\ last = Idle
    /\ StashRepoInit
    /\ has_signature = TRUE
    /\ TagsRepoInit
    /\ StatusRepoInit

NextSched ==
    \/ \E key \in Keys, params \in Parameters : submit(key, params) /\ UNCHANGED allButSched
    \/ \E j \in jobs : run(j) /\ UNCHANGED allButSched
    \/ \E j \in jobs : call(j) /\ UNCHANGED allButSched
    \/ \E j \in jobs, outcome \in {"Done", "Failed"} :
            complete(j, outcome) /\ UNCHANGED allButSched
    \/ receive /\ UNCHANGED allButSched
    \/ \E loc \in Locations : ui_get_stash_index(loc) /\ UNCHANGED allButSched
    \/ ui_stash_drop /\ UNCHANGED allButSched

SpecSched == InitSched /\ [][NextSched]_vars

----------------------------------------------------------------------------
(* Properties of sync/status.rs *)

\* C7: a successful get_status returns its items in ascending path order
\* (for all positions i < j, path[i] is not greater than path[j] under path
\* comparison), and a bare repository that is not a worktree yields the
\* empty list.
C7_StatusSorted ==
    last.op = "get_status" =>
        /\ last.res = "Ok" =>
                \A i \in 1..Len(last.ret), j \in 1..Len(last.ret) :
                    i < j => Path_cmp(last.ret[i].path, last.ret[j].path) # "Greater"
        /\ is_bare /\ ~is_worktree => last.res = "Ok" /\ last.ret = <<>>

\* get_status has just returned "a/b" ahead of "a-b", which git lists in the
\* other order
C7_Witness ==
    /\ last.op = "get_status"
    /\ last.res = "Ok"
    /\ \E i \in 1..Len(last.ret), j \in 1..Len(last.ret) :
            /\ i < j
            /\ last.ret[i].path = <<97, 47, 98>>
            /\ last.ret[j].path = <<97, 45, 98>>

----------------------------------------------------------------------------
(* Properties of the asynchronous engine *)

\* C1: single-flight: whatever submits arrive and whenever, at most one job
\* of a resource key is Running at any instant.
C1_SingleFlight ==
    \A key \in Keys :
        Cardinality({j \in jobs : j.key = key /\ j.state = "Running"}) <= 1

\* a job is Running, and two submits for its key have arrived since it was
\* created, one of them at least while it was Running
C1_Witness ==
    \E j \in jobs :
        /\ j.state = "Running"
        /\ Len(arrived[j.key]) >= 2
        /\ Len(arrived[j.key]) > run_mark[j.key]

\* the jobs that complete in a step: they were inside the call and are gone
Completing == {j \in jobs : j.in_call /\ j \notin jobs'}

\* C2: staleness suppression: a job whose generation is less than its key's
\* live generation when it completes writes nothing to the cache and sends
\* no wake signal, and the generation stored in the cache for a key never
\* decreases.
C2_StaleSuppressed ==
    [][/\ \A j \in Completing :
            j.gen < generation[j.key] => cache' = cache /\ signals' = signals
       /\ \A key \in Keys : cache'[key].gen >= cache[key].gen]_vars

\* a superseded job was discarded and the cache entry of its key was never
\* written
C2_Witness ==
    \E key \in Keys :
        /\ finished[key].state = "Discarded"
        /\ cache[key].value = <<>>
        /\ cache[key].in_flight

\* the jobs of a key after the step
InFlightAfter(key) == {j \in jobs' : j.key = key}

C4_LocationExclusive ==
    \A loc \in Locations :
        LET workers == {j \in jobs : j.in_call /\ j.key.loc = loc}
            callers == Cardinality(workers) + (IF ui.loc = loc THEN 1 ELSE 0)
        IN  /\ callers <= 1
            /\ callers = 1 => lock[loc] # Free
            /\ \A j \in workers : lock[loc] = j.key

====
